---- MODULE Spec2Model ----
(***************************************************************************)
(* Host-allocation shim of cqdeVk (src/src/allocator.cpp, allocator.hpp):  *)
(* the Allocator's block ledger (mAllocatedBlocks), its per-scope          *)
(* aggregates (mOccupiedMemory), the platform heap it draws from with      *)
(* std::aligned_alloc, and the five callbacks the graphics API invokes.    *)
(***************************************************************************)
EXTENDS Integers, Naturals, Sequences, FiniteSets, TLC

(* ---------------------------- bounds ----------------------------------- *)
\* number of distinct non-null addresses the platform heap can hand out
NumAddr == 3
\* largest size the host requests or notifies (bytes)
MaxSize == 2
\* alignments are 2^0 .. 2^MaxAlignExp
MaxAlignExp == 1
\* scopes are the enumerators 0 .. MaxScope of VkSystemAllocationScope
MaxScope == 1
\* internal allocation types are 0 .. MaxType
MaxType == 1
\* width of size_t in the model (64 in the build)
SizeBits == 4
\* number of callback invocations explored
MaxCalls == 3
\* number of host threads that may be inside a callback at once
NumThreads == 2

(* ---------------------------- value sets ------------------------------- *)
NULL == 0
Addr == 1..NumAddr
Pointer == 0..NumAddr
Size == 0..MaxSize
Alignment == {2^k : k \in 0..MaxAlignExp}
Scope == 0..MaxScope
InternalType == 0..MaxType
Threads == 1..NumThreads

\* size_t: unsigned, arithmetic modulo 2^SizeBits
SIZE_MOD == 2^SizeBits
Plus(a, b) == (a + b) % SIZE_MOD
Minus(a, b) == (a + SIZE_MOD - b) % SIZE_MOD
Min(a, b) == IF a < b THEN a ELSE b

\* struct AllocatedBlock, struct ScopeAllocation
AllocatedBlock(size, alignment, scope) ==
  [size |-> size, alignment |-> alignment, scope |-> scope]
ScopeAllocation(size, count) == [size |-> size, count |-> count]

VARIABLES
  mAllocatedBlocks,  \* ledger: address -> AllocatedBlock
  mOccupiedMemory,   \* aggregates: scope -> ScopeAllocation
  heap,              \* platform heap: live block address -> its bytes
  ndebug,            \* TRUE when the build defines NDEBUG (asserts compiled out)
  aborted,           \* TRUE once an assertion has failed (process ended)
  call,              \* the last callback invocation: arguments and result
  pre,               \* ledger, aggregates and heap as they were before it
  calls,             \* number of callback invocations so far
  report,            \* what the last invocation logged about memory usage
  thread,            \* per host thread: the frame of its invocation in progress
  overlapped         \* TRUE once an invocation began while another was inside

vars == <<mAllocatedBlocks, mOccupiedMemory, heap, ndebug, aborted, call, pre,
          calls, report, thread, overlapped>>

(* ----------------------- map and heap helpers -------------------------- *)
\* std::map / std::unordered_map assignment through operator[]
Put(m, k, v) == [x \in DOMAIN m \cup {k} |-> IF x = k THEN v ELSE m[x]]
\* erase(key)
Erase(m, k) == [x \in DOMAIN m \ {k} |-> m[x]]
\* mOccupiedMemory[scope]: value-initialised ScopeAllocation when absent
ScopeEntry(occ, scope) ==
  IF scope \in DOMAIN occ THEN occ[scope] ELSE ScopeAllocation(0, 0)

RECURSIVE SumLen(_, _)
SumLen(h, S) ==
  IF S = {} THEN 0
  ELSE LET a == CHOOSE x \in S : TRUE IN Len(h[a]) + SumLen(h, S \ {a})
\* bytes the platform has handed out and not got back
HeldBytes(h) == SumLen(h, DOMAIN h)

\* the contents of a fresh block of `size` bytes at `data`: the program only
\* copies bytes and never inspects them, so a byte is identified by the
\* block and offset at which it first appeared
Fresh(data, size) == [i \in 1..size |-> <<data, i>>]

\* std::aligned_alloc(alignment, size): null, or an address that is not
\* live, when the request fits into what is left of the address space
AlignedAlloc(h, alignment, size) ==
  {NULL} \cup {a \in Addr \ DOMAIN h : HeldBytes(h) + size < SIZE_MOD}

\* a memcpy that stops one byte short
Memcpy_OneShort(h, dst, src, n) ==
  [h EXCEPT ![dst] = [i \in 1..Len(h[dst]) |->
                        IF i < n THEN h[src][i] ELSE h[dst][i]]]

\* std::memcpy(dst, src, n)
Memcpy(h, dst, src, n) ==
  [h EXCEPT ![dst] = [i \in 1..Len(h[dst]) |->
                        IF i <= n THEN h[src][i] ELSE h[dst][i]]]

(* --------------------------- Allocator --------------------------------- *)
\* result of a method: the three maps, the returned pointer, whether an
\* assertion failed, and what std::aligned_alloc did during the call
\* ("none": not called, "null": returned nullptr, "block": returned a block)
Result(blocks, occ, h, ret, abort, platform) ==
  [blocks |-> blocks, occ |-> occ, heap |-> h, ret |-> ret, abort |-> abort,
   platform |-> platform]

\* an allocate that assigns the size to the aggregate instead of adding it
Allocator_allocate_Assign(blocks, occ, h, size, alignment, scope, data) ==
  IF data = NULL
    THEN Result(blocks, occ, h, NULL, FALSE, "null")
    ELSE LET scopeAllocation == ScopeEntry(occ, scope)
         IN Result(Put(blocks, data, AllocatedBlock(size, alignment, scope)),
                   Put(occ, scope,
                       ScopeAllocation(size,
                                       Plus(scopeAllocation.count, 1))),
                   Put(h, data, Fresh(data, size)),
                   data, FALSE, "block")

\* an allocate that looks the scope up in mOccupiedMemory before it tests
\* the pointer
Allocator_allocate_EarlyLookup(blocks, occ, h, size, alignment, scope, data) ==
  LET scopeAllocation == ScopeEntry(occ, scope)
  IN IF data = NULL
       THEN Result(blocks, Put(occ, scope, scopeAllocation), h, NULL, FALSE,
                   "null")
       ELSE Result(Put(blocks, data, AllocatedBlock(size, alignment, scope)),
                   Put(occ, scope,
                       ScopeAllocation(Plus(scopeAllocation.size, size),
                                       Plus(scopeAllocation.count, 1))),
                   Put(h, data, Fresh(data, size)),
                   data, FALSE, "block")

\* Allocator::allocate; `data` is what aligned_alloc returned
Allocator_allocate(blocks, occ, h, size, alignment, scope, data) ==
  IF data = NULL
    THEN Result(blocks, occ, h, NULL, FALSE, "null")
    ELSE LET scopeAllocation == ScopeEntry(occ, scope)
         IN Result(Put(blocks, data, AllocatedBlock(size, alignment, scope)),
                   Put(occ, scope,
                       ScopeAllocation(Plus(scopeAllocation.size, size),
                                       Plus(scopeAllocation.count, 1))),
                   Put(h, data, Fresh(data, size)),
                   data, FALSE, "block")

\* a deallocate that forgets count--
Allocator_deallocate_NoCount(blocks, occ, h, data) ==
  IF data \notin DOMAIN blocks
    THEN Result(blocks, occ, h, NULL, FALSE, "none")
    ELSE LET block == blocks[data]
             scopeAllocation == ScopeEntry(occ, block.scope)
         IN Result(Erase(blocks, data),
                   Put(occ, block.scope,
                       ScopeAllocation(Minus(scopeAllocation.size, block.size),
                                       scopeAllocation.count)),
                   h,
                   NULL, FALSE, "none")

\* a deallocate that forgets size -= block.size
Allocator_deallocate_NoSize(blocks, occ, h, data) ==
  IF data \notin DOMAIN blocks
    THEN Result(blocks, occ, h, NULL, FALSE, "none")
    ELSE LET block == blocks[data]
             scopeAllocation == ScopeEntry(occ, block.scope)
         IN Result(Erase(blocks, data),
                   Put(occ, block.scope,
                       ScopeAllocation(scopeAllocation.size,
                                       Minus(scopeAllocation.count, 1))),
                   h,
                   NULL, FALSE, "none")

\* a deallocate without the count(data) == 0 test: mAllocatedBlocks[data]
\* value-initialises the block of an unknown address
Allocator_deallocate_NoLookup(blocks, occ, h, data) ==
  LET block == IF data \in DOMAIN blocks THEN blocks[data]
               ELSE AllocatedBlock(0, 0, 0)
      scopeAllocation == ScopeEntry(occ, block.scope)
  IN Result(Erase(blocks, data),
            Put(occ, block.scope,
                ScopeAllocation(Minus(scopeAllocation.size, block.size),
                                Minus(scopeAllocation.count, 1))),
            h,
            NULL, FALSE, "none")

\* a deallocate that drops the aggregate of a scope whose last block went
Allocator_deallocate_EraseEmpty(blocks, occ, h, data) ==
  IF data \notin DOMAIN blocks
    THEN Result(blocks, occ, h, NULL, FALSE, "none")
    ELSE LET block == blocks[data]
             scopeAllocation == ScopeEntry(occ, block.scope)
             left == ScopeAllocation(Minus(scopeAllocation.size, block.size),
                                     Minus(scopeAllocation.count, 1))
         IN Result(Erase(blocks, data),
                   IF left.count = 0 THEN Erase(occ, block.scope)
                   ELSE Put(occ, block.scope, left),
                   h,
                   NULL, FALSE, "none")

\* Allocator::deallocate
Allocator_deallocate(blocks, occ, h, data) ==
  IF data \notin DOMAIN blocks
    THEN Result(blocks, occ, h, NULL, FALSE, "none")
    ELSE LET block == blocks[data]
             scopeAllocation == ScopeEntry(occ, block.scope)
         IN Result(Erase(blocks, data),
                   Put(occ, block.scope,
                       ScopeAllocation(Minus(scopeAllocation.size, block.size),
                                       Minus(scopeAllocation.count, 1))),
                   h,
                   NULL, FALSE, "none")

\* a reallocate that allocates afresh for an unknown block
Allocator_reallocate_Fallback(blocks, occ, h, nd, data, size, alignment, scope, newData) ==
  IF ~nd /\ (data = NULL \/ size = 0)
    THEN Result(blocks, occ, h, NULL, TRUE, "none")
  ELSE IF data \notin DOMAIN blocks
    THEN Allocator_allocate(blocks, occ, h, size, alignment, scope, newData)
  ELSE IF ~nd /\ alignment # blocks[data].alignment
    THEN Result(blocks, occ, h, NULL, TRUE, "none")
  ELSE LET a == Allocator_allocate(blocks, occ, h, size, alignment, scope,
                                   newData)
       IN IF a.ret = NULL
            THEN Result(a.blocks, a.occ, a.heap, NULL, FALSE, a.platform)
            ELSE LET block == a.blocks[data]
                     copied == Memcpy(a.heap, a.ret, data,
                                      Min(size, block.size))
                     d == Allocator_deallocate(a.blocks, a.occ, copied, data)
                 IN Result(d.blocks, d.occ, d.heap, a.ret, FALSE, a.platform)

\* a reallocate that deallocates the old block before it allocates the new
Allocator_reallocate_FreeFirst(blocks, occ, h, nd, data, size, alignment, scope, newData) ==
  IF ~nd /\ (data = NULL \/ size = 0)
    THEN Result(blocks, occ, h, NULL, TRUE, "none")
  ELSE IF data \notin DOMAIN blocks
    THEN Result(blocks, occ, h, NULL, FALSE, "none")
  ELSE IF ~nd /\ alignment # blocks[data].alignment
    THEN Result(blocks, occ, h, NULL, TRUE, "none")
  ELSE LET block == blocks[data]
           d == Allocator_deallocate(blocks, occ, h, data)
           a == Allocator_allocate(d.blocks, d.occ, d.heap, size, alignment,
                                   scope, newData)
       IN IF a.ret = NULL
            THEN Result(a.blocks, a.occ, a.heap, NULL, FALSE, a.platform)
            ELSE Result(a.blocks, a.occ,
                        Memcpy(a.heap, a.ret, data, Min(size, block.size)),
                        a.ret, FALSE, a.platform)

\* a reallocate that forgets deallocate(data)
Allocator_reallocate_KeepOld(blocks, occ, h, nd, data, size, alignment, scope, newData) ==
  IF ~nd /\ (data = NULL \/ size = 0)
    THEN Result(blocks, occ, h, NULL, TRUE, "none")
  ELSE IF data \notin DOMAIN blocks
    THEN Result(blocks, occ, h, NULL, FALSE, "none")
  ELSE IF ~nd /\ alignment # blocks[data].alignment
    THEN Result(blocks, occ, h, NULL, TRUE, "none")
  ELSE LET a == Allocator_allocate(blocks, occ, h, size, alignment, scope,
                                   newData)
       IN IF a.ret = NULL
            THEN Result(a.blocks, a.occ, a.heap, NULL, FALSE, a.platform)
            ELSE LET block == a.blocks[data]
                     copied == Memcpy(a.heap, a.ret, data,
                                      Min(size, block.size))
                 IN Result(a.blocks, a.occ, copied, a.ret, FALSE, a.platform)

\* a reallocate that asserts the alignment only after it has allocated
Allocator_reallocate_LateAssert(blocks, occ, h, nd, data, size, alignment, scope, newData) ==
  IF ~nd /\ (data = NULL \/ size = 0)
    THEN Result(blocks, occ, h, NULL, TRUE, "none")
  ELSE IF data \notin DOMAIN blocks
    THEN Result(blocks, occ, h, NULL, FALSE, "none")
  ELSE LET a == Allocator_allocate(blocks, occ, h, size, alignment, scope,
                                   newData)
       IN IF ~nd /\ alignment # blocks[data].alignment
            THEN Result(a.blocks, a.occ, a.heap, NULL, TRUE, a.platform)
          ELSE IF a.ret = NULL
            THEN Result(a.blocks, a.occ, a.heap, NULL, FALSE, a.platform)
            ELSE LET block == a.blocks[data]
                     copied == Memcpy(a.heap, a.ret, data,
                                      Min(size, block.size))
                     d == Allocator_deallocate(a.blocks, a.occ, copied, data)
                 IN Result(d.blocks, d.occ, d.heap, a.ret, FALSE, a.platform)

\* a reallocate that discharges the old block from the scope it was called
\* with instead of the scope recorded for the block
Allocator_reallocate_ArgScope(blocks, occ, h, nd, data, size, alignment, scope, newData) ==
  IF ~nd /\ (data = NULL \/ size = 0)
    THEN Result(blocks, occ, h, NULL, TRUE, "none")
  ELSE IF data \notin DOMAIN blocks
    THEN Result(blocks, occ, h, NULL, FALSE, "none")
  ELSE IF ~nd /\ alignment # blocks[data].alignment
    THEN Result(blocks, occ, h, NULL, TRUE, "none")
  ELSE LET a == Allocator_allocate(blocks, occ, h, size, alignment, scope,
                                   newData)
       IN IF a.ret = NULL
            THEN Result(a.blocks, a.occ, a.heap, NULL, FALSE, a.platform)
            ELSE LET block == a.blocks[data]
                     copied == Memcpy(a.heap, a.ret, data,
                                      Min(size, block.size))
                     d == Allocator_deallocate(
                            Put(a.blocks, data,
                                AllocatedBlock(block.size, block.alignment,
                                               scope)),
                            a.occ, copied, data)
                 IN Result(d.blocks, d.occ, d.heap, a.ret, FALSE, a.platform)

\* Allocator::reallocate; `nd` is the NDEBUG flag of the build, `newData`
\* is the outcome of the aligned_alloc inside allocate
Allocator_reallocate(blocks, occ, h, nd, data, size, alignment, scope, newData) ==
  IF ~nd /\ (data = NULL \/ size = 0)
    THEN Result(blocks, occ, h, NULL, TRUE, "none")
  ELSE IF data \notin DOMAIN blocks
    THEN Result(blocks, occ, h, NULL, FALSE, "none")
  ELSE IF ~nd /\ alignment # blocks[data].alignment
    THEN Result(blocks, occ, h, NULL, TRUE, "none")
  ELSE LET a == Allocator_allocate(blocks, occ, h, size, alignment, scope,
                                   newData)
       IN IF a.ret = NULL
            THEN Result(a.blocks, a.occ, a.heap, NULL, FALSE, a.platform)
            ELSE LET block == a.blocks[data]
                     copied == Memcpy(a.heap, a.ret, data,
                                      Min(size, block.size))
                     d == Allocator_deallocate(a.blocks, a.occ, copied, data)
                 IN Result(d.blocks, d.occ, d.heap, a.ret, FALSE, a.platform)

\* an allocate_internal that forgets count++
Allocator_allocate_internal_NoCount(occ, size, type, scope) ==
  LET scopeAllocation == ScopeEntry(occ, scope)
  IN Put(occ, scope, ScopeAllocation(Plus(scopeAllocation.size, size),
                                     scopeAllocation.count))

\* an allocate_internal that accounts only for allocations of type 0
Allocator_allocate_internal_ByType(occ, size, type, scope) ==
  LET scopeAllocation == ScopeEntry(occ, scope)
  IN IF type = 0
       THEN Put(occ, scope, ScopeAllocation(Plus(scopeAllocation.size, size),
                                            Plus(scopeAllocation.count, 1)))
       ELSE Put(occ, scope, scopeAllocation)

\* Allocator::allocate_internal
Allocator_allocate_internal(occ, size, type, scope) ==
  LET scopeAllocation == ScopeEntry(occ, scope)
  IN Put(occ, scope, ScopeAllocation(Plus(scopeAllocation.size, size),
                                     Plus(scopeAllocation.count, 1)))

\* a deallocate_internal that forgets count--
Allocator_deallocate_internal_NoCount(occ, size, type, scope) ==
  LET scopeAllocation == ScopeEntry(occ, scope)
  IN Put(occ, scope, ScopeAllocation(Minus(scopeAllocation.size, size),
                                     scopeAllocation.count))

\* Allocator::deallocate_internal
Allocator_deallocate_internal(occ, size, type, scope) ==
  LET scopeAllocation == ScopeEntry(occ, scope)
  IN Put(occ, scope, ScopeAllocation(Minus(scopeAllocation.size, size),
                                     Minus(scopeAllocation.count, 1)))

\* the totals printMemoryUsage accumulates over the scopes in S
RECURSIVE TotalBytes(_, _)
TotalBytes(occ, S) ==
  IF S = {} THEN 0
  ELSE LET scope == CHOOSE x \in S : TRUE
       IN Plus(occ[scope].size, TotalBytes(occ, S \ {scope}))

RECURSIVE TotalBlocks(_, _)
TotalBlocks(occ, S) ==
  IF S = {} THEN 0
  ELSE LET scope == CHOOSE x \in S : TRUE
       IN Plus(occ[scope].count, TotalBlocks(occ, S \ {scope}))

\* the lines of a usage report: one (size, count) per scope, the two totals
\* and the internal allocation count
Report(scopes, totalAllocatedBytes, totalAllocatedBlocks, internalAllocationsCount) ==
  [scopes |-> scopes, totalAllocatedBytes |-> totalAllocatedBytes,
   totalAllocatedBlocks |-> totalAllocatedBlocks,
   internalAllocationsCount |-> internalAllocationsCount]

\* a printMemoryUsage that reports the block total as the internal count
Allocator_printMemoryUsage_NoLedger(blocks, occ) ==
  LET totalAllocatedBytes == TotalBytes(occ, DOMAIN occ)
      totalAllocatedBlocks == TotalBlocks(occ, DOMAIN occ)
  IN Report(occ, totalAllocatedBytes, totalAllocatedBlocks,
            totalAllocatedBlocks)

\* Allocator::printMemoryUsage: what it logs
Allocator_printMemoryUsage(blocks, occ) ==
  LET totalAllocatedBytes == TotalBytes(occ, DOMAIN occ)
      totalAllocatedBlocks == TotalBlocks(occ, DOMAIN occ)
  IN Report(occ, totalAllocatedBytes, totalAllocatedBlocks,
            Minus(totalAllocatedBlocks, Cardinality(DOMAIN blocks)))

(* ------------------------ callback trampolines ------------------------- *)
Empty == [x \in {} |-> 0]

\* the frame of an invocation: where it stands, its arguments, the pointer
\* it got from Allocator::allocate, and what it has loaded from the ledger
\* (blocks) or from a field of an aggregate (loaded) and not yet stored back
Frame(pc, data, size, alignment, scope, ret, blocks, loaded) ==
  [pc |-> pc, data |-> data, size |-> size, alignment |-> alignment,
   scope |-> scope, ret |-> ret, blocks |-> blocks, loaded |-> loaded]

\* a thread that is in no callback
IdleFrame == Frame("idle", NULL, 0, 0, 0, NULL, Empty, 0)

\* one callback invocation as the host sees it: the trampoline, its
\* arguments, the pointer it returned and what the platform allocator did
Call(op, data, size, alignment, scope, type, ret, platform) ==
  [op |-> op, data |-> data, size |-> size, alignment |-> alignment,
   scope |-> scope, type |-> type, ret |-> ret, platform |-> platform]

Snapshot == [blocks |-> mAllocatedBlocks, occ |-> mOccupiedMemory,
             heap |-> heap]

\* the callbacks log no usage report
NoReport == Report([x \in {} |-> 0], 0, 0, 0)

\* a callback may be invoked while the process runs
Running == ~aborted /\ calls < MaxCalls

\* the state after the method called by trampoline `op` produced r
Return(r, op, data, size, alignment, scope, type) ==
  /\ mAllocatedBlocks' = r.blocks
  /\ mOccupiedMemory' = r.occ
  /\ heap' = r.heap
  /\ aborted' = r.abort
  /\ call' = Call(op, data, size, alignment, scope, type, r.ret, r.platform)
  /\ pre' = Snapshot
  /\ calls' = calls + 1
  /\ report' = NoReport
  /\ UNCHANGED <<ndebug, thread, overlapped>>

\* allocate(pAllocator, size, alignment, scope)
allocate ==
  /\ Running
  /\ \E size \in Size, alignment \in Alignment, scope \in Scope :
       \E data \in AlignedAlloc(heap, alignment, size) :
         Return(Allocator_allocate(mAllocatedBlocks, mOccupiedMemory, heap,
                                   size, alignment, scope, data),
                "allocate", NULL, size, alignment, scope, 0)

\* a reallocate trampoline without the size == 0 case
Trampoline_reallocate_NoZero(blocks, occ, h, nd, data, size, alignment, scope, newData) ==
  IF data # NULL
    THEN Allocator_reallocate(blocks, occ, h, nd, data, size, alignment,
                              scope, newData)
  ELSE Allocator_allocate(blocks, occ, h, size, alignment, scope, newData)

\* a reallocate trampoline that hands a null pointer to Allocator::reallocate
Trampoline_reallocate_NullToMethod(blocks, occ, h, nd, data, size, alignment, scope, newData) ==
  IF size = 0
    THEN Allocator_deallocate(blocks, occ, h, data)
  ELSE Allocator_reallocate(blocks, occ, h, nd, data, size, alignment,
                            scope, newData)

\* the body of reallocate(pAllocator, data, size, alignment, scope)
Trampoline_reallocate(blocks, occ, h, nd, data, size, alignment, scope, newData) ==
  IF size = 0
    THEN Allocator_deallocate(blocks, occ, h, data)
  ELSE IF data # NULL
    THEN Allocator_reallocate(blocks, occ, h, nd, data, size, alignment,
                              scope, newData)
  ELSE Allocator_allocate(blocks, occ, h, size, alignment, scope, newData)

\* reallocate(pAllocator, data, size, alignment, scope)
reallocate ==
  /\ Running
  /\ \E data \in Pointer, size \in Size, alignment \in Alignment,
        scope \in Scope :
       \E newData \in AlignedAlloc(heap, alignment, size) :
         Return(Trampoline_reallocate(mAllocatedBlocks, mOccupiedMemory, heap,
                                      ndebug, data, size, alignment, scope,
                                      newData),
                "reallocate", data, size, alignment, scope, 0)

\* free(pAllocator, data)
free ==
  /\ Running
  /\ \E data \in Pointer :
       Return(Allocator_deallocate(mAllocatedBlocks, mOccupiedMemory, heap,
                                   data),
              "free", data, 0, 0, 0, 0)

\* internalAllocate(pAllocator, size, type, scope)
internalAllocate ==
  /\ Running
  /\ \E size \in Size, type \in InternalType, scope \in Scope :
       Return(Result(mAllocatedBlocks,
                     Allocator_allocate_internal(mOccupiedMemory, size, type,
                                                 scope),
                     heap, NULL, FALSE, "none"),
              "internalAllocate", NULL, size, 0, scope, type)

\* internalFree(pAllocator, size, type, scope)
internalFree ==
  /\ Running
  /\ \E size \in Size, type \in InternalType, scope \in Scope :
       Return(Result(mAllocatedBlocks,
                     Allocator_deallocate_internal(mOccupiedMemory, size, type,
                                                   scope),
                     heap, NULL, FALSE, "none"),
              "internalFree", NULL, size, 0, scope, type)

\* a printMemoryUsage that reads every scope with mOccupiedMemory[scope]
printMemoryUsage_Touch ==
  /\ Running
  /\ call' = Call("printMemoryUsage", NULL, 0, 0, 0, 0, NULL, "none")
  /\ pre' = Snapshot
  /\ calls' = calls + 1
  /\ report' = Allocator_printMemoryUsage(mAllocatedBlocks, mOccupiedMemory)
  /\ mOccupiedMemory' = [s \in Scope |-> ScopeEntry(mOccupiedMemory, s)]
  /\ UNCHANGED <<mAllocatedBlocks, heap, ndebug, aborted, thread, overlapped>>

\* allocator.printMemoryUsage(), called by the application
printMemoryUsage ==
  /\ Running
  /\ call' = Call("printMemoryUsage", NULL, 0, 0, 0, 0, NULL, "none")
  /\ pre' = Snapshot
  /\ calls' = calls + 1
  /\ report' = Allocator_printMemoryUsage(mAllocatedBlocks, mOccupiedMemory)
  /\ UNCHANGED <<mAllocatedBlocks, mOccupiedMemory, heap, ndebug, aborted,
                 thread, overlapped>>

(* ------------------- reallocate, statement by statement ---------------- *)
\* no thread is inside a callback
AllIdle == \A t \in Threads : thread[t].pc = "idle"

\* reallocate(data, size, alignment, scope) gets as far as the memcpy: the
\* trampoline forwards to Allocator::reallocate, the block is known, no
\* assertion stops the call and the fresh allocation succeeds
ReachesCopy(blocks, nd, data, size, alignment, newData) ==
  /\ size # 0
  /\ data # NULL
  /\ data \in DOMAIN blocks
  /\ nd \/ alignment = blocks[data].alignment
  /\ newData # NULL

\* a reallocate that gives the old block up before it allocates the new one
Reallocate_new_EraseFirst(blocks, occ, h, data, size, alignment, scope, newData) ==
  LET d == Allocator_deallocate(blocks, occ, h, data)
  IN Allocator_allocate(d.blocks, d.occ, d.heap, size, alignment, scope,
                        newData)

\* the first statement of Allocator::reallocate that changes state:
\* newData = allocate(size, alignment, scope)
Reallocate_new(blocks, occ, h, data, size, alignment, scope, newData) ==
  Allocator_allocate(blocks, occ, h, size, alignment, scope, newData)

\* reallocate up to and including the fresh allocation; a call that does
\* not reach the memcpy is over with this step
reallocate_allocate ==
  /\ Running
  /\ AllIdle
  /\ \E data \in Pointer, size \in Size, alignment \in Alignment,
        scope \in Scope :
       \E newData \in AlignedAlloc(heap, alignment, size) :
         IF ReachesCopy(mAllocatedBlocks, ndebug, data, size, alignment,
                        newData)
           THEN LET a == Reallocate_new(mAllocatedBlocks, mOccupiedMemory,
                                        heap, data, size, alignment, scope,
                                        newData)
                IN /\ mAllocatedBlocks' = a.blocks
                   /\ mOccupiedMemory' = a.occ
                   /\ heap' = a.heap
                   /\ thread' = [thread EXCEPT
                                   ![1] = Frame("copy", data, size, alignment,
                                                scope, a.ret, Empty, 0)]
                   /\ call' = Call("reallocate", data, size, alignment, scope,
                                   0, NULL, a.platform)
                   /\ pre' = Snapshot
                   /\ calls' = calls + 1
                   /\ report' = NoReport
                   /\ UNCHANGED <<ndebug, aborted, overlapped>>
           ELSE Return(Trampoline_reallocate(mAllocatedBlocks,
                                             mOccupiedMemory, heap, ndebug,
                                             data, size, alignment, scope,
                                             newData),
                       "reallocate", data, size, alignment, scope, 0)

\* std::memcpy(newData, data, std::min(size, block.size))
reallocate_memcpy ==
  /\ thread[1].pc = "copy"
  /\ LET f == thread[1]
     IN /\ heap' = Memcpy(heap, f.ret, f.data,
                          Min(f.size, mAllocatedBlocks[f.data].size))
        /\ thread' = [thread EXCEPT ![1].pc = "free"]
  /\ UNCHANGED <<mAllocatedBlocks, mOccupiedMemory, ndebug, aborted, call,
                 pre, calls, report, overlapped>>

\* deallocate(data); return newData
reallocate_deallocate ==
  /\ thread[1].pc = "free"
  /\ LET f == thread[1]
         d == Allocator_deallocate(mAllocatedBlocks, mOccupiedMemory, heap,
                                   f.data)
     IN /\ mAllocatedBlocks' = d.blocks
        /\ mOccupiedMemory' = d.occ
        /\ heap' = d.heap
        /\ call' = [call EXCEPT !.ret = f.ret]
        /\ thread' = [thread EXCEPT ![1] = IdleFrame]
  /\ UNCHANGED <<ndebug, aborted, pre, calls, report, overlapped>>

(* --------------- allocate called from several threads at once ---------- *)
\* scopeAllocation.size += size, the store half
StoreSize(occ, scope, loaded, size) ==
  [occ EXCEPT ![scope].size = Plus(loaded, size)]

\* a count++ that stores back what it loaded
StoreCount_Same(occ, scope, loaded) ==
  [occ EXCEPT ![scope].count = loaded]

\* scopeAllocation.count++, the store half
StoreCount(occ, scope, loaded) ==
  [occ EXCEPT ![scope].count = Plus(loaded, 1)]

\* thread t enters allocate(size, alignment, scope) and calls
\* std::aligned_alloc, which is thread-safe; a null result ends the call
allocate_call(t) ==
  /\ Running
  /\ thread[t].pc = "idle"
  /\ \E size \in Size, alignment \in Alignment, scope \in Scope :
       \E data \in AlignedAlloc(heap, alignment, size) :
         /\ heap' = IF data = NULL THEN heap
                    ELSE Put(heap, data, Fresh(data, size))
         /\ thread' = [thread EXCEPT
                         ![t] = Frame(IF data = NULL THEN "done"
                                      ELSE "ledger",
                                      NULL, size, alignment, scope, data,
                                      Empty, 0)]
  /\ overlapped' = (overlapped \/
                    \E u \in Threads \ {t} :
                      thread[u].pc \notin {"idle", "done"})
  /\ calls' = calls + 1
  /\ UNCHANGED <<mAllocatedBlocks, mOccupiedMemory, ndebug, aborted, call,
                 pre, report>>

\* mAllocatedBlocks[data] = {...} is not atomic: the thread reads the table,
allocate_ledger_load(t) ==
  /\ thread[t].pc = "ledger"
  /\ thread' = [thread EXCEPT ![t].pc = "ledger_store",
                              ![t].blocks = mAllocatedBlocks]
  /\ UNCHANGED <<mAllocatedBlocks, mOccupiedMemory, heap, ndebug, aborted,
                 call, pre, calls, report, overlapped>>

\* and writes it back with its entry added; an entry another thread added
\* in between is lost
allocate_ledger_store(t) ==
  /\ thread[t].pc = "ledger_store"
  /\ LET f == thread[t]
     IN mAllocatedBlocks' =
          Put(f.blocks, f.ret, AllocatedBlock(f.size, f.alignment, f.scope))
  /\ thread' = [thread EXCEPT ![t].pc = "size", ![t].blocks = Empty]
  /\ UNCHANGED <<mOccupiedMemory, heap, ndebug, aborted, call, pre, calls,
                 report, overlapped>>

\* auto& scopeAllocation = mOccupiedMemory[scope], and the load half of
\* scopeAllocation.size += size
allocate_size_load(t) ==
  /\ thread[t].pc = "size"
  /\ LET f == thread[t]
         scopeAllocation == ScopeEntry(mOccupiedMemory, f.scope)
     IN /\ mOccupiedMemory' = Put(mOccupiedMemory, f.scope, scopeAllocation)
        /\ thread' = [thread EXCEPT ![t].pc = "size_store",
                                    ![t].loaded = scopeAllocation.size]
  /\ UNCHANGED <<mAllocatedBlocks, heap, ndebug, aborted, call, pre, calls,
                 report, overlapped>>

\* the store half of scopeAllocation.size += size
allocate_size_store(t) ==
  /\ thread[t].pc = "size_store"
  /\ LET f == thread[t]
     IN mOccupiedMemory' = StoreSize(mOccupiedMemory, f.scope, f.loaded,
                                     f.size)
  /\ thread' = [thread EXCEPT ![t].pc = "count", ![t].loaded = 0]
  /\ UNCHANGED <<mAllocatedBlocks, heap, ndebug, aborted, call, pre, calls,
                 report, overlapped>>

\* the load half of scopeAllocation.count++
allocate_count_load(t) ==
  /\ thread[t].pc = "count"
  /\ thread' = [thread EXCEPT
                  ![t].pc = "count_store",
                  ![t].loaded = mOccupiedMemory[thread[t].scope].count]
  /\ UNCHANGED <<mAllocatedBlocks, mOccupiedMemory, heap, ndebug, aborted,
                 call, pre, calls, report, overlapped>>

\* the store half, and return data
allocate_count_store(t) ==
  /\ thread[t].pc = "count_store"
  /\ LET f == thread[t]
     IN mOccupiedMemory' = StoreCount(mOccupiedMemory, f.scope, f.loaded)
  /\ thread' = [thread EXCEPT ![t].pc = "done", ![t].loaded = 0]
  /\ UNCHANGED <<mAllocatedBlocks, heap, ndebug, aborted, call, pre, calls,
                 report, overlapped>>

(* --------------------------- specification ----------------------------- *)

\* Allocator() = default: both maps empty; nothing allocated yet
Init ==
  /\ mAllocatedBlocks = Empty
  /\ mOccupiedMemory = Empty
  /\ heap = Empty
  /\ ndebug \in BOOLEAN
  /\ aborted = FALSE
  /\ call = Call("none", NULL, 0, 0, 0, 0, NULL, "none")
  /\ pre = [blocks |-> Empty, occ |-> Empty, heap |-> Empty]
  /\ calls = 0
  /\ report = NoReport
  /\ thread = [t \in Threads |-> IdleFrame]
  /\ overlapped = FALSE

Next ==
  \/ allocate
  \/ reallocate
  \/ free
  \/ internalAllocate
  \/ internalFree

Spec == Init /\ [][Next]_vars

\* the host only allocates and frees
NextAllocFree ==
  \/ allocate
  \/ free

SpecAllocFree == Init /\ [][NextAllocFree]_vars

\* the host only allocates, reallocates and frees: no internal notification
NextNoInternal ==
  \/ allocate
  \/ reallocate
  \/ free

SpecNoInternal == Init /\ [][NextNoInternal]_vars

\* the five callbacks, and the application printing the usage
NextUsage ==
  \/ Next
  \/ printMemoryUsage

SpecUsage == Init /\ [][NextUsage]_vars

\* one thread: allocate and free in one step, reallocate statement by
\* statement
NextSteps ==
  \/ AllIdle /\ allocate
  \/ AllIdle /\ free
  \/ reallocate_allocate
  \/ reallocate_memcpy
  \/ reallocate_deallocate

SpecSteps == Init /\ [][NextSteps]_vars

\* the host calls allocate from each of its threads with no lock around the
\* calls
NextConcurrent ==
  \E t \in Threads :
    \/ allocate_call(t)
    \/ allocate_ledger_load(t)
    \/ allocate_ledger_store(t)
    \/ allocate_size_load(t)
    \/ allocate_size_store(t)
    \/ allocate_count_load(t)
    \/ allocate_count_store(t)

SpecConcurrent == Init /\ [][NextConcurrent]_vars

TypeOK ==
  /\ DOMAIN mAllocatedBlocks \subseteq Addr
  /\ DOMAIN mOccupiedMemory \subseteq Scope
  /\ DOMAIN heap \subseteq Addr
  /\ \A s \in DOMAIN mOccupiedMemory :
       mOccupiedMemory[s].size \in 0..(SIZE_MOD - 1)
       /\ mOccupiedMemory[s].count \in 0..(SIZE_MOD - 1)
(* ------------------------------ claims --------------------------------- *)
\* the aggregate of a scope after adding / removing (size, 1), in size_t
\* arithmetic
Charged(entry, size) ==
  ScopeAllocation(Plus(entry.size, size), Plus(entry.count, 1))
Discharged(entry, size) ==
  ScopeAllocation(Minus(entry.size, size), Minus(entry.count, 1))

\* the last callback was reallocate forwarding to Allocator::reallocate
\* (non-null pointer, non-zero size) and no assertion stopped it
ReallocateMethodReturned ==
  call.op = "reallocate" /\ call.data # NULL /\ call.size # 0 /\ ~aborted

\* C1: allocate(size, alignment, scope), when the platform allocator returns
\* a non-null address p, returns p, leaves a ledger entry for p recording
\* exactly (size, alignment, scope) and adds exactly (size, 1) to the
\* aggregate of `scope` (size_t arithmetic).
C1_AllocateSuccess ==
  (call.op = "allocate" /\ call.platform = "block") =>
    /\ DOMAIN heap \ DOMAIN pre.heap = {call.ret}
    /\ call.ret \in DOMAIN mAllocatedBlocks
    /\ mAllocatedBlocks[call.ret] =
         AllocatedBlock(call.size, call.alignment, call.scope)
    /\ call.scope \in DOMAIN mOccupiedMemory
    /\ mOccupiedMemory[call.scope] =
         Charged(ScopeEntry(pre.occ, call.scope), call.size)

\* a successful allocate into a scope that already holds something
C1_Witness ==
  /\ call.op = "allocate" /\ call.platform = "block"
  /\ call.size = MaxSize
  /\ call.scope \in DOMAIN pre.occ
  /\ pre.occ[call.scope].count > 0
  /\ Cardinality(DOMAIN mAllocatedBlocks) = 2

\* C2: allocate, when the platform allocator returns null, returns null and
\* leaves the ledger and every scope aggregate as they were: no entry is
\* created or changed.
C2_AllocateFailure ==
  (call.op = "allocate" /\ call.platform = "null") =>
    /\ call.ret = NULL
    /\ mAllocatedBlocks = pre.blocks
    /\ mOccupiedMemory = pre.occ

\* a failed allocate for a scope that has no aggregate entry, with a block
\* in the ledger
C2_Witness ==
  /\ call.op = "allocate" /\ call.platform = "null"
  /\ call.size > 0
  /\ call.scope \notin DOMAIN pre.occ
  /\ pre.blocks # Empty

\* C3: in every sequence of allocate and deallocate calls, each deallocate
\* of an address present in the ledger leaves it absent, decreases the count
\* of the scope recorded for it by exactly 1 and that scope's size by
\* exactly the recorded size (as integers: nothing wraps).
C3_DeallocateDecrements ==
  (call.op = "free" /\ call.data \in DOMAIN pre.blocks) =>
    LET block == pre.blocks[call.data]
    IN /\ call.data \notin DOMAIN mAllocatedBlocks
       /\ block.scope \in DOMAIN pre.occ
       /\ block.scope \in DOMAIN mOccupiedMemory
       /\ mOccupiedMemory[block.scope].count =
            pre.occ[block.scope].count - 1
       /\ mOccupiedMemory[block.scope].size =
            pre.occ[block.scope].size - block.size

\* one of two blocks of a scope has been deallocated
C3_Witness ==
  /\ call.op = "free" /\ call.data \in DOMAIN pre.blocks
  /\ pre.blocks[call.data].size > 0
  /\ pre.occ[pre.blocks[call.data].scope].count = 2
  /\ mOccupiedMemory[pre.blocks[call.data].scope].count = 1

\* C4: deallocate releases the block's memory to the platform allocator, so
\* the blocks still held from the platform are exactly the ledger addresses.
C4_HeldIsLedger == DOMAIN heap = DOMAIN mAllocatedBlocks

\* C5: deallocate / free of a null address or of an address not in the
\* ledger changes neither the ledger nor any aggregate; freeing an address a
\* second time is such a call.
C5_UnknownFreeIsNoOp ==
  (call.op = "free" /\ call.data \notin DOMAIN pre.blocks) =>
    /\ mAllocatedBlocks = pre.blocks
    /\ mOccupiedMemory = pre.occ
    /\ ~aborted

\* free of an address that the platform handed out and that has already
\* left the ledger, its scope's count being back at 0
C5_Witness ==
  /\ call.op = "free"
  /\ call.data \in DOMAIN pre.heap
  /\ call.data \notin DOMAIN pre.blocks
  /\ pre.blocks = Empty
  /\ \E s \in DOMAIN pre.occ : pre.occ[s].count = 0

\* C6: reallocate of a non-null pointer that is not in the ledger (size > 0)
\* returns null, obtains no block from the platform and inserts no entry:
\* ledger, aggregates and heap are unchanged.
C6_ReallocateUnknown ==
  (call.op = "reallocate" /\ call.data # NULL /\ call.size # 0
   /\ call.data \notin DOMAIN pre.blocks) =>
    /\ call.ret = NULL
    /\ call.platform = "none"
    /\ mAllocatedBlocks = pre.blocks
    /\ mOccupiedMemory = pre.occ
    /\ heap = pre.heap

\* reallocate of an unknown pointer while the ledger holds another block
\* and the platform still has addresses to give
C6_Witness ==
  /\ call.op = "reallocate" /\ call.data # NULL /\ call.size # 0
  /\ call.data \notin DOMAIN pre.blocks
  /\ pre.blocks # Empty
  /\ DOMAIN pre.heap # Addr
  /\ ~aborted

\* the last callback was a reallocate of a ledger block whose fresh
\* allocation failed
ReallocateFailed ==
  /\ ReallocateMethodReturned
  /\ call.data \in DOMAIN pre.blocks
  /\ call.platform = "null"

\* C7: if the fresh allocation inside reallocate fails, reallocate returns
\* null with the original block's entry and all aggregates as before the
\* call, and a deallocate of the original pointer that follows removes it
\* and takes (old size, 1) from the original scope.
C7_ReallocateFailureKeepsBlock ==
  [][/\ ReallocateFailed' =>
          /\ call'.ret = NULL
          /\ mAllocatedBlocks' = pre'.blocks
          /\ mOccupiedMemory' = pre'.occ
     /\ (ReallocateFailed /\ call'.op = "free" /\ call'.data = call.data) =>
          LET block == pre.blocks[call.data]
          IN /\ call.data \notin DOMAIN mAllocatedBlocks'
             /\ mAllocatedBlocks' = Erase(pre.blocks, call.data)
             /\ mOccupiedMemory' =
                  Put(pre.occ, block.scope,
                      Discharged(ScopeEntry(pre.occ, block.scope),
                                 block.size))
    ]_vars

\* a reallocate to another scope has just failed and the original pointer
\* can be freed next
C7_Witness ==
  /\ ReallocateFailed
  /\ call.scope # pre.blocks[call.data].scope
  /\ call.size # pre.blocks[call.data].size
  /\ ENABLED (free /\ call'.data = call.data)

\* the last callback was a reallocate of a ledger block that returned a
\* pointer
ReallocateSucceeded ==
  /\ ReallocateMethodReturned
  /\ call.data \in DOMAIN pre.blocks
  /\ call.ret # NULL

\* C8: a successful reallocate(p, size, alignment, scope) of a ledger block
\* returns q # p; afterwards p is absent from the ledger, q is present
\* recording exactly (size, alignment, scope), and the ledger has as many
\* entries as before.
C8_ReallocateReplaces ==
  ReallocateSucceeded =>
    /\ call.ret # call.data
    /\ call.data \notin DOMAIN mAllocatedBlocks
    /\ call.ret \in DOMAIN mAllocatedBlocks
    /\ mAllocatedBlocks[call.ret] =
         AllocatedBlock(call.size, call.alignment, call.scope)
    /\ Cardinality(DOMAIN mAllocatedBlocks) = Cardinality(DOMAIN pre.blocks)

\* a successful reallocate to another size and scope, beside another block
C8_Witness ==
  /\ ReallocateSucceeded
  /\ call.size # pre.blocks[call.data].size
  /\ call.scope # pre.blocks[call.data].scope
  /\ Cardinality(DOMAIN pre.blocks) = 2

\* C9: after a successful reallocate from recorded size old to size new, the
\* first min(old, new) bytes at the returned address are the bytes that were
\* at the original address before the call.
C9_ReallocatePreservesContent ==
  ReallocateSucceeded =>
    \A i \in 1..Min(pre.blocks[call.data].size, call.size) :
      heap[call.ret][i] = pre.heap[call.data][i]

\* a shrinking reallocate of a block that an earlier growing reallocate
\* filled: its first byte came from that earlier block, its second is its own
C9_Witness ==
  /\ ReallocateSucceeded
  /\ pre.blocks[call.data].size = 2
  /\ call.size = 1
  /\ pre.heap[call.data][1][1] # call.data
  /\ pre.heap[call.data][2] = <<call.data, 2>>
  /\ heap[call.ret] = <<pre.heap[call.data][1]>>

\* C10: from any reachable state, a successful allocate(N, A, S) followed
\* immediately by deallocate of the returned address restores the aggregate
\* of S to its (size, count) before the allocate and the ledger to its
\* contents before the allocate.
C10_AllocateDeallocateRoundTrip ==
  [][(/\ call.op = "allocate" /\ call.ret # NULL
      /\ call'.op = "free" /\ call'.data = call.ret) =>
        /\ ScopeEntry(mOccupiedMemory', call.scope) =
             ScopeEntry(pre.occ, call.scope)
        /\ mAllocatedBlocks' = pre.blocks
    ]_vars

\* a block of MaxSize bytes has just been allocated beside another block of
\* its scope and can be freed next
C10_Witness ==
  /\ call.op = "allocate" /\ call.ret # NULL
  /\ call.size = MaxSize
  /\ pre.blocks # Empty
  /\ ScopeEntry(pre.occ, call.scope).count > 0
  /\ ENABLED (free /\ call'.data = call.ret)
\* the last callback was an internal notification
InternalNotified == call.op \in {"internalAllocate", "internalFree"}

\* C11: allocate_internal(size, type, scope) and deallocate_internal(size,
\* type, scope), also through their trampolines, never add, remove or modify
\* a ledger entry; they change only the aggregate of `scope`, by +(size, 1)
\* and -(size, 1) respectively.
C11_InternalOnlyMovesAggregate ==
  InternalNotified =>
    /\ mAllocatedBlocks = pre.blocks
    /\ heap = pre.heap
    /\ ~aborted
    /\ mOccupiedMemory =
         Put(pre.occ, call.scope,
             IF call.op = "internalAllocate"
               THEN Charged(ScopeEntry(pre.occ, call.scope), call.size)
               ELSE Discharged(ScopeEntry(pre.occ, call.scope), call.size))

\* an internal allocation has been notified for a scope that holds a ledger
\* block, beside another scope with an aggregate
C11_Witness ==
  /\ call.op = "internalAllocate"
  /\ call.size = MaxSize
  /\ \E a \in DOMAIN pre.blocks : pre.blocks[a].scope = call.scope
  /\ DOMAIN pre.occ = Scope
  /\ mOccupiedMemory[call.scope].count = 2

\* C12: invariant I1: in every state reachable by the five callbacks, for
\* every address in the ledger the aggregate of that block's scope has
\* size >= the block's recorded size and count >= 1.
C12_LedgerCoveredByAggregate ==
  \A a \in DOMAIN mAllocatedBlocks :
    LET block == mAllocatedBlocks[a]
    IN /\ ScopeEntry(mOccupiedMemory, block.scope).size >= block.size
       /\ ScopeEntry(mOccupiedMemory, block.scope).count >= 1

\* C13: invariant I2: a successful allocation adds exactly one new key to
\* the ledger and overwrites no existing entry, and an address leaves the
\* ledger only through a deallocate of that address or a successful
\* reallocate that supersedes it.
C13_LedgerKeys ==
  /\ call.platform = "block" =>
       /\ call.ret \notin DOMAIN pre.blocks
       /\ DOMAIN mAllocatedBlocks \ DOMAIN pre.blocks = {call.ret}
  /\ call.platform # "block" =>
       DOMAIN mAllocatedBlocks \subseteq DOMAIN pre.blocks
  /\ \A a \in DOMAIN mAllocatedBlocks \cap DOMAIN pre.blocks :
       mAllocatedBlocks[a] = pre.blocks[a]
  /\ \A a \in DOMAIN pre.blocks \ DOMAIN mAllocatedBlocks :
       /\ a = call.data
       /\ \/ call.op = "free"
          \/ call.op = "reallocate" /\ call.size = 0
          \/ call.op = "reallocate" /\ call.ret # NULL

\* a successful reallocate has replaced one of two ledger entries
C13_Witness ==
  /\ call.op = "reallocate" /\ call.ret # NULL
  /\ Cardinality(DOMAIN pre.blocks) = 2
  /\ DOMAIN pre.blocks \ DOMAIN mAllocatedBlocks = {call.data}
  /\ DOMAIN mAllocatedBlocks \ DOMAIN pre.blocks = {call.ret}

\* the number of ledger blocks of `scope` among the addresses S, and the sum
\* of their recorded sizes
RECURSIVE LedgerCount(_, _, _)
LedgerCount(blocks, scope, S) ==
  IF S = {} THEN 0
  ELSE LET a == CHOOSE x \in S : TRUE
       IN (IF blocks[a].scope = scope THEN 1 ELSE 0)
          + LedgerCount(blocks, scope, S \ {a})

RECURSIVE LedgerBytes(_, _, _)
LedgerBytes(blocks, scope, S) ==
  IF S = {} THEN 0
  ELSE LET a == CHOOSE x \in S : TRUE
       IN (IF blocks[a].scope = scope THEN blocks[a].size ELSE 0)
          + LedgerBytes(blocks, scope, S \ {a})

\* C14: in every state reached by allocate, reallocate and deallocate calls
\* only, each scope's aggregate is exactly the ledger's content for that
\* scope: size = sum of the recorded sizes of its ledger blocks, count = their
\* number (two blocks give the sum and 2; freeing the first leaves the
\* second's size and 1).
C14_AggregateIsLedgerSum ==
  \A scope \in Scope :
    ScopeEntry(mOccupiedMemory, scope) =
      ScopeAllocation(
        LedgerBytes(mAllocatedBlocks, scope, DOMAIN mAllocatedBlocks),
        LedgerCount(mAllocatedBlocks, scope, DOMAIN mAllocatedBlocks))

\* blocks of 1 and MaxSize bytes were allocated in one scope, giving
\* (1 + MaxSize, 2), and the first has been freed, leaving (MaxSize, 1) and
\* one ledger entry
C14_Witness ==
  /\ call.op = "free"
  /\ call.data \in DOMAIN pre.blocks
  /\ pre.blocks[call.data].size = 1
  /\ pre.occ[pre.blocks[call.data].scope] = ScopeAllocation(1 + MaxSize, 2)
  /\ mOccupiedMemory[pre.blocks[call.data].scope] =
       ScopeAllocation(MaxSize, 1)
  /\ Cardinality(DOMAIN mAllocatedBlocks) = 1

\* the sum of the counts of the scopes in S
RECURSIVE CountSum(_, _)
CountSum(occ, S) ==
  IF S = {} THEN 0
  ELSE LET scope == CHOOSE x \in S : TRUE
       IN occ[scope].count + CountSum(occ, S \ {scope})

\* C15: printMemoryUsage reports an internal allocation count equal to (the
\* sum of count over all scope aggregates) minus (the number of ledger
\* entries), in size_t arithmetic; after allocate_internal(size, t, scope)
\* on a fresh Allocator the scope's aggregate is (size, 1), the ledger is
\* empty and the reported internal count is 1.
C15_InternalAllocationCount ==
  /\ call.op = "printMemoryUsage" =>
       /\ report.internalAllocationsCount =
            (CountSum(mOccupiedMemory, DOMAIN mOccupiedMemory) + SIZE_MOD
             - Cardinality(DOMAIN mAllocatedBlocks)) % SIZE_MOD
       /\ (mAllocatedBlocks = Empty
           /\ \E scope \in Scope, size \in Size :
                mOccupiedMemory =
                  Put(Empty, scope, ScopeAllocation(size, 1)))
            => report.internalAllocationsCount = 1
  /\ (call.op = "internalAllocate" /\ pre.blocks = Empty /\ pre.occ = Empty)
       => /\ mOccupiedMemory =
               Put(Empty, call.scope, ScopeAllocation(call.size, 1))
          /\ mAllocatedBlocks = Empty

\* the usage printed right after one internal allocation on a fresh
\* Allocator
C15_Witness ==
  /\ call.op = "printMemoryUsage"
  /\ calls = 2
  /\ mAllocatedBlocks = Empty
  /\ heap = Empty
  /\ mOccupiedMemory = Put(Empty, MaxScope, ScopeAllocation(MaxSize, 1))
  /\ report.internalAllocationsCount = 1

\* C16: the reallocate trampoline called with size == 0 returns null and
\* behaves as a free of the pointer: a ledger pointer is removed and its
\* scope discharged by (recorded size, 1), a null or unknown pointer leaves
\* the state unchanged; no allocation is attempted.
C16_ReallocateZeroFrees ==
  (call.op = "reallocate" /\ call.size = 0) =>
    /\ call.ret = NULL
    /\ ~aborted
    /\ call.platform = "none"
    /\ heap = pre.heap
    /\ call.data \in DOMAIN pre.blocks =>
         LET block == pre.blocks[call.data]
         IN /\ mAllocatedBlocks = Erase(pre.blocks, call.data)
            /\ mOccupiedMemory =
                 Put(pre.occ, block.scope,
                     Discharged(ScopeEntry(pre.occ, block.scope), block.size))
    /\ call.data \notin DOMAIN pre.blocks =>
         /\ mAllocatedBlocks = pre.blocks
         /\ mOccupiedMemory = pre.occ

\* reallocate to size 0 of a ledger block of MaxSize bytes, named with
\* another scope than the recorded one, while the platform has addresses left
C16_Witness ==
  /\ call.op = "reallocate" /\ call.size = 0
  /\ call.data \in DOMAIN pre.blocks
  /\ pre.blocks[call.data].size = MaxSize
  /\ pre.blocks[call.data].scope # call.scope
  /\ DOMAIN pre.heap # Addr

\* C17: the reallocate trampoline called with a null pointer and size > 0
\* has the effect and result of allocate(size, alignment, scope): on success
\* one new ledger entry and +(size, 1) on the scope, on platform failure
\* null and unchanged state; no existing ledger entry is removed.
C17_ReallocateNullAllocates ==
  (call.op = "reallocate" /\ call.data = NULL /\ call.size # 0) =>
    /\ ~aborted
    /\ call.platform \in {"null", "block"}
    /\ call.platform = "block" =>
         /\ call.ret # NULL
         /\ DOMAIN heap \ DOMAIN pre.heap = {call.ret}
         /\ call.ret \notin DOMAIN pre.blocks
         /\ mAllocatedBlocks =
              Put(pre.blocks, call.ret,
                  AllocatedBlock(call.size, call.alignment, call.scope))
         /\ mOccupiedMemory =
              Put(pre.occ, call.scope,
                  Charged(ScopeEntry(pre.occ, call.scope), call.size))
    /\ call.platform = "null" =>
         /\ call.ret = NULL
         /\ mAllocatedBlocks = pre.blocks
         /\ mOccupiedMemory = pre.occ
         /\ heap = pre.heap

\* reallocate(null, MaxSize) has allocated a second block in a scope
C17_Witness ==
  /\ call.op = "reallocate" /\ call.data = NULL /\ call.size = MaxSize
  /\ call.platform = "block"
  /\ Cardinality(DOMAIN mAllocatedBlocks) = 2
  /\ mOccupiedMemory[call.scope].count = 2

\* the last callback was a reallocate of a ledger block with an alignment
\* other than the recorded one
AlignmentMismatch ==
  /\ call.op = "reallocate" /\ call.data # NULL /\ call.size # 0
  /\ call.data \in DOMAIN pre.blocks
  /\ call.alignment # pre.blocks[call.data].alignment

\* C18: every invocation of a trampoline, for any arguments the host may
\* pass (unknown pointers and a reallocate alignment that differs from the
\* recorded one included), returns to the host; none ends in an assertion
\* failure.
C18_AlwaysReturns == ~aborted

\* C19 as stated: reallocate on a ledger block with an alignment other than
\* the recorded one stops at an assertion before any allocation is attempted
\* and before the ledger or an aggregate is modified; it never returns a
\* pointer.
C19_MismatchAsserts ==
  AlignmentMismatch =>
    /\ aborted
    /\ call.ret = NULL
    /\ call.platform = "none"
    /\ mAllocatedBlocks = pre.blocks
    /\ mOccupiedMemory = pre.occ
    /\ heap = pre.heap

\* C19 as amended: in a build with assertions enabled, reallocate on a
\* ledger block with an alignment other than the recorded one stops at an
\* assertion before any allocation is attempted and before the ledger or an
\* aggregate is modified, and returns no pointer; in a build with NDEBUG the
\* assertion is compiled out, the allocation is attempted, and a returned
\* block replaces the old one and records the new alignment.
C19_MismatchAssertsInDebug ==
  AlignmentMismatch =>
    /\ ~ndebug =>
         /\ aborted
         /\ call.ret = NULL
         /\ call.platform = "none"
         /\ mAllocatedBlocks = pre.blocks
         /\ mOccupiedMemory = pre.occ
         /\ heap = pre.heap
    /\ ndebug =>
         /\ ~aborted
         /\ call.platform \in {"null", "block"}
         /\ call.platform = "null" =>
              call.ret = NULL /\ mAllocatedBlocks = pre.blocks
         /\ call.platform = "block" =>
              /\ call.ret \in DOMAIN mAllocatedBlocks
              /\ call.data \notin DOMAIN mAllocatedBlocks
              /\ mAllocatedBlocks[call.ret].alignment = call.alignment

\* a mismatched reallocate stopped at the assertion while the platform
\* still had addresses to give
C19_Witness ==
  /\ AlignmentMismatch
  /\ ~ndebug
  /\ aborted
  /\ DOMAIN pre.heap # Addr

\* C20: allocate with size == 0 is rejected: allocate(0, alignment, scope),
\* directly or through the trampoline, never inserts a ledger entry and
\* never changes an aggregate.
C20_ZeroSizeRejected ==
  (call.op = "allocate" /\ call.size = 0) =>
    /\ mAllocatedBlocks = pre.blocks
    /\ mOccupiedMemory = pre.occ

\* the threads whose allocate has returned a block of `scope`
Allocated(scope) ==
  {t \in Threads : /\ thread[t].pc = "done"
                   /\ thread[t].ret # NULL
                   /\ thread[t].scope = scope}

\* the sum, in size_t arithmetic, of the sizes the threads in T asked for
RECURSIVE SizeSum(_)
SizeSum(T) ==
  IF T = {} THEN 0
  ELSE LET t == CHOOSE x \in T : TRUE
       IN Plus(thread[t].size, SizeSum(T \ {t}))

\* the ledger and the aggregates that the calls made so far produce on a
\* fresh Allocator when they are made one after another, in whatever order
SerialOutcome ==
  /\ DOMAIN mAllocatedBlocks =
       {thread[t].ret : t \in UNION {Allocated(scope) : scope \in Scope}}
  /\ \A scope \in Scope :
       /\ \A t \in Allocated(scope) :
            mAllocatedBlocks[thread[t].ret] =
              AllocatedBlock(thread[t].size, thread[t].alignment, scope)
       /\ IF Allocated(scope) = {}
            THEN scope \notin DOMAIN mOccupiedMemory
            ELSE /\ scope \in DOMAIN mOccupiedMemory
                 /\ mOccupiedMemory[scope] =
                      ScopeAllocation(SizeSum(Allocated(scope)),
                                      Cardinality(Allocated(scope))
                                        % SIZE_MOD)

\* no thread is in the middle of a callback
Quiescent == \A t \in Threads : thread[t].pc \in {"idle", "done"}

\* C21: the Allocator has no lock of its own.  When the allocate calls of
\* the host's threads are serialized (none begins while another is inside),
\* every state between calls is the one the calls produce in a serial order:
\* a ledger entry for each block returned and, per scope, the sum of the
\* sizes and the number of the blocks.  When two calls overlap, their loads
\* and stores of the ledger and of an aggregate interleave and a state
\* outside that set is reachable, such as an aggregate that counts one block
\* where two were returned.
C21_SerializedCallsAreExact ==
  (Quiescent /\ ~overlapped) => SerialOutcome

\* two overlapping allocate calls of one scope have both returned a block
\* and both blocks are in the ledger, yet the aggregate of the scope counts
\* one: an increment was lost, which no serial order of the two calls gives
C21_Witness ==
  /\ overlapped
  /\ \E scope \in Scope :
       /\ Allocated(scope) = Threads
       /\ DOMAIN mAllocatedBlocks = {thread[t].ret : t \in Threads}
       /\ mOccupiedMemory[scope].count = 1
  /\ ~SerialOutcome

\* C22: the aggregate entry of a scope appears only through a successful
\* allocation or an internal notification naming that scope; after a
\* successful allocate, a deallocate of a ledger block, allocate_internal or
\* deallocate_internal the entry of the scope concerned is present; no
\* operation removes an entry, also not when its totals return to (0, 0);
\* a failed allocate creates none.
C22_AggregateEntryLifecycle ==
  /\ DOMAIN pre.occ \subseteq DOMAIN mOccupiedMemory
  /\ DOMAIN mOccupiedMemory \ DOMAIN pre.occ \subseteq {call.scope}
  /\ DOMAIN mOccupiedMemory # DOMAIN pre.occ =>
       call.platform = "block" \/ InternalNotified
  /\ (call.op = "allocate" /\ call.platform = "block") =>
       call.scope \in DOMAIN mOccupiedMemory
  /\ InternalNotified => call.scope \in DOMAIN mOccupiedMemory
  /\ (call.op = "free" /\ call.data \in DOMAIN pre.blocks) =>
       pre.blocks[call.data].scope \in DOMAIN mOccupiedMemory
  /\ (call.op = "allocate" /\ call.platform = "null") =>
       DOMAIN mOccupiedMemory = DOMAIN pre.occ

\* the only block of a scope has been freed: the scope's entry stays, at
\* (0, 0), while the other scope, never touched, has none
C22_Witness ==
  /\ call.op = "free"
  /\ call.data \in DOMAIN pre.blocks
  /\ mAllocatedBlocks = Empty
  /\ DOMAIN mOccupiedMemory = {pre.blocks[call.data].scope}
  /\ mOccupiedMemory[pre.blocks[call.data].scope] = ScopeAllocation(0, 0)

ReallocateOfBlock ==
  /\ call.op = "reallocate"
  /\ call.size # 0
  /\ call.data \in DOMAIN pre.blocks

\* C24: a successful reallocate proceeds allocate-new, copy, free-old.  While
\* the copy or the free-old is still to come, the old block's entry is in
\* the ledger as before the call, the new block's entry is in the ledger
\* and its scope's aggregate has been incremented; the new block is filled
\* from the old one before the old entry is erased; the old block is never
\* absent from the ledger while the new one is not present; the completed
\* call leaves what Allocator::reallocate as a whole leaves; and in every
\* state each ledger entry's recorded size is the size of the platform block
\* at that address.
C24_ReallocateOrder ==
  LET f == thread[1]
  IN /\ \A a \in DOMAIN mAllocatedBlocks :
          /\ a \in DOMAIN heap
          /\ Len(heap[a]) = mAllocatedBlocks[a].size
     /\ f.pc \in {"copy", "free"} =>
          /\ f.data \in DOMAIN mAllocatedBlocks
          /\ mAllocatedBlocks[f.data] = pre.blocks[f.data]
          /\ f.ret \in DOMAIN mAllocatedBlocks \ DOMAIN pre.blocks
          /\ mAllocatedBlocks[f.ret] =
               AllocatedBlock(f.size, f.alignment, f.scope)
          /\ mOccupiedMemory =
               Put(pre.occ, f.scope,
                   Charged(ScopeEntry(pre.occ, f.scope), f.size))
     /\ f.pc = "copy" => heap[f.ret] = Fresh(f.ret, f.size)
     /\ f.pc = "free" =>
          \A i \in 1..Min(f.size, pre.blocks[f.data].size) :
            heap[f.ret][i] = pre.heap[f.data][i]
     /\ ReallocateOfBlock =>
          /\ call.data \notin DOMAIN mAllocatedBlocks =>
               /\ f.pc = "idle"
               /\ call.ret \in DOMAIN mAllocatedBlocks
          /\ (f.pc = "idle" /\ call.ret # NULL) =>
               LET r == Allocator_reallocate(pre.blocks, pre.occ, pre.heap,
                                             ndebug, call.data, call.size,
                                             call.alignment, call.scope,
                                             call.ret)
               IN /\ call.data \notin DOMAIN mAllocatedBlocks
                  /\ mAllocatedBlocks = r.blocks
                  /\ mOccupiedMemory = r.occ
                  /\ heap = r.heap

\* a reallocate that grows a block of another scope has allocated and
\* copied, and is about to erase the old entry, beside a third block
C24_Witness ==
  /\ thread[1].pc = "free"
  /\ thread[1].size = MaxSize
  /\ pre.blocks[thread[1].data].size = 1
  /\ pre.blocks[thread[1].data].scope # thread[1].scope
  /\ heap[thread[1].ret][1] = pre.heap[thread[1].data][1]
  /\ Cardinality(DOMAIN mAllocatedBlocks) = 3

\* C25: printMemoryUsage changes neither the ledger nor any aggregate nor the
\* heap and creates no aggregate entry, in whatever state and however often
\* it is called; the state later operations start from is the state before
\* it.
C25_PrintMemoryUsageIsPure ==
  call.op = "printMemoryUsage" =>
    /\ mAllocatedBlocks = pre.blocks
    /\ mOccupiedMemory = pre.occ
    /\ DOMAIN mOccupiedMemory = DOMAIN pre.occ
    /\ heap = pre.heap

\* the usage has been printed twice running or more while one scope holds a
\* block and the other was never touched
C25_Witness ==
  /\ call.op = "printMemoryUsage"
  /\ calls = MaxCalls
  /\ Cardinality(DOMAIN mAllocatedBlocks) = 1
  /\ Cardinality(DOMAIN mOccupiedMemory) = 1
  /\ report.totalAllocatedBlocks = 1

\* C26: no aggregate's size or count is ever decremented below zero: an
\* internal free finds at least (size, 1) in the aggregate of its scope, the
\* removal of a ledger block finds at least (recorded size, 1) in the
\* aggregate of the block's scope, and the sum of the counts of all scopes
\* is at least the number of ledger entries.
C26_NoWrapAround ==
  /\ call.op = "internalFree" =>
       /\ ScopeEntry(pre.occ, call.scope).size >= call.size
       /\ ScopeEntry(pre.occ, call.scope).count >= 1
  /\ \A a \in DOMAIN pre.blocks \ DOMAIN mAllocatedBlocks :
       LET block == pre.blocks[a]
           occ == IF call.platform = "block"
                    THEN Put(pre.occ, call.scope,
                             Charged(ScopeEntry(pre.occ, call.scope),
                                     call.size))
                    ELSE pre.occ
       IN /\ ScopeEntry(occ, block.scope).size >= block.size
          /\ ScopeEntry(occ, block.scope).count >= 1
  /\ CountSum(mOccupiedMemory, DOMAIN mOccupiedMemory) >=
       Cardinality(DOMAIN mAllocatedBlocks)

\* the address whose ledger entry, and the scope whose aggregate, the last
\* callback may have changed, each as a set with at most one member
AffectedAddress ==
  IF call.op = "allocate" THEN {call.ret} \ {NULL}
  ELSE IF call.op = "free" THEN {call.data}
  ELSE {}
AffectedScope ==
  IF call.op = "free"
    THEN {pre.blocks[a].scope : a \in {call.data} \cap DOMAIN pre.blocks}
  ELSE {call.scope}

\* C27: allocate, deallocate and the internal notifications leave every
\* ledger entry other than the one of the address allocated or freed as it
\* was (present with the same record, or absent), and leave the aggregate of
\* every scope other than the one named, or recorded for the freed block, as
\* it was.
C27_ChangesOnlyWhatItNames ==
  call.op \in {"allocate", "free", "internalAllocate", "internalFree"} =>
    /\ \A a \in Addr \ AffectedAddress :
         /\ a \in DOMAIN mAllocatedBlocks <=> a \in DOMAIN pre.blocks
         /\ a \in DOMAIN pre.blocks => mAllocatedBlocks[a] = pre.blocks[a]
    /\ \A s \in Scope \ AffectedScope :
         /\ s \in DOMAIN mOccupiedMemory <=> s \in DOMAIN pre.occ
         /\ s \in DOMAIN pre.occ => mOccupiedMemory[s] = pre.occ[s]

\* one of two ledger blocks has been freed while the other block belongs to
\* another scope
C27_Witness ==
  /\ call.op = "free"
  /\ call.data \in DOMAIN pre.blocks
  /\ \E a \in DOMAIN mAllocatedBlocks :
       mAllocatedBlocks[a].scope # pre.blocks[call.data].scope
  /\ DOMAIN mOccupiedMemory = Scope

\* after internalAllocate(size, type, scope): whatever allocate on `scope`
\* or free of a ledger block of `scope` the host makes next, the matching
\* internalFree after it leaves the aggregate of `scope` and the ledger as
\* that allocate or free alone would have left them from the state before
\* the internalAllocate
InternalPairCommutes ==
  call.op = "internalAllocate" =>
    /\ \A size \in Size, alignment \in Alignment :
         \A data \in AlignedAlloc(heap, alignment, size) :
           LET between == Allocator_allocate(mAllocatedBlocks,
                                             mOccupiedMemory, heap, size,
                                             alignment, call.scope, data)
               alone == Allocator_allocate(pre.blocks, pre.occ, pre.heap,
                                           size, alignment, call.scope, data)
           IN /\ between.blocks = alone.blocks
              /\ between.ret = alone.ret
              /\ \A type \in InternalType :
                   ScopeEntry(Allocator_deallocate_internal(
                                between.occ, call.size, type, call.scope),
                              call.scope)
                     = ScopeEntry(alone.occ, call.scope)
    /\ \A data \in Pointer :
         (data \in DOMAIN mAllocatedBlocks =>
            mAllocatedBlocks[data].scope = call.scope) =>
           LET between == Allocator_deallocate(mAllocatedBlocks,
                                               mOccupiedMemory, heap, data)
               alone == Allocator_deallocate(pre.blocks, pre.occ, pre.heap,
                                             data)
           IN /\ between.blocks = alone.blocks
              /\ \A type \in InternalType :
                   ScopeEntry(Allocator_deallocate_internal(
                                between.occ, call.size, type, call.scope),
                              call.scope)
                     = ScopeEntry(alone.occ, call.scope)

\* C28: from any reachable state, internalAllocate(size, type, scope)
\* followed by internalFree(size, type', scope) leaves the aggregate of
\* `scope` at the (size, count) it had before the pair and the ledger as it
\* was, and the pair commutes with an allocate or deallocate on the same
\* scope made between the two.
C28_InternalRoundTrip ==
  /\ [][(/\ call.op = "internalAllocate"
         /\ call'.op = "internalFree"
         /\ call'.size = call.size /\ call'.scope = call.scope) =>
          /\ ScopeEntry(mOccupiedMemory', call.scope) =
               ScopeEntry(pre.occ, call.scope)
          /\ mAllocatedBlocks' = pre.blocks
       ]_vars
  /\ []InternalPairCommutes

\* an internal allocation of MaxSize bytes has been notified for a scope
\* that holds a ledger block, the platform has addresses left, and the
\* matching internal free with another type can come next
C28_Witness ==
  /\ call.op = "internalAllocate"
  /\ call.size = MaxSize
  /\ \E a \in DOMAIN mAllocatedBlocks :
       mAllocatedBlocks[a].scope = call.scope
  /\ DOMAIN heap # Addr
  /\ ENABLED (/\ internalFree
              /\ call'.size = call.size /\ call'.scope = call.scope
              /\ call'.type # call.type)

\* C29: the `type` argument of an internal notification does not affect the
\* accounting: the ledger and the aggregates after internalAllocate or
\* internalFree are those the same call with any other type would have
\* produced from the same state, so two runs of one callback sequence that
\* differ only in the types passed go through the same ledger and aggregate
\* states.
C29_TypeDoesNotAffectAccounting ==
  InternalNotified =>
    \A type \in InternalType :
      /\ mAllocatedBlocks = pre.blocks
      /\ mOccupiedMemory =
           IF call.op = "internalAllocate"
             THEN Allocator_allocate_internal(pre.occ, call.size, type,
                                              call.scope)
             ELSE Allocator_deallocate_internal(pre.occ, call.size, type,
                                                call.scope)

\* an internal allocation of a type other than 0 has been notified after one
\* of type 0
C29_Witness ==
  /\ call.op = "internalAllocate"
  /\ call.type # 0
  /\ call.size = MaxSize
  /\ mOccupiedMemory[call.scope].count = 2
  /\ mAllocatedBlocks = Empty
====
